---------------------------- MODULE Spec2Model ----------------------------
(***************************************************************************)
(* A model of pubmed_doc_fetcher: the affiliation classifier, the record   *)
(* extractor, the detail client and the fetch/filter/export pipeline of    *)
(* PubMedFetcher, with the command-line caller (main) around it.           *)
(*                                                                         *)
(* Python strings are TLA+ strings (Len, SubSeq and \o act on them).       *)
(* An optional XML element is a sequence of length 0 (find() gave None) or *)
(* 1 (the element's .text); a .text of None is the string None below.      *)
(* An identifier is the number its string spells: search_papers' declared  *)
(* List[str] holds no None.                                                *)
(***************************************************************************)
EXTENDS Integers, Sequences, FiniteSets

VARIABLES
    pc,               \* where the run (or the function being verified) stands
    pubmed_ids,       \* fetch_and_filter_papers: the search result
    i,                \* fetch_and_filter_papers: the loop offset of range(0, len, batch_size)
    all_papers,       \* fetch_and_filter_papers: the accumulator
    filtered_papers,  \* fetch_and_filter_papers: the filter's result
    papers,           \* main: the value fetch_and_filter_papers returned
    file,             \* the output destination
    file0,            \* the output destination as the run found it
    csv_papers,       \* save_to_csv: its papers argument
    csv_k,            \* save_to_csv: rows written so far
    caller,           \* save_to_csv: who called it ("ffp" or "main")
    log,              \* the calls made so far: search, fetch, sleep, export
    arg,              \* the argument of the function being verified
    ret               \* its result

vars == <<pc, pubmed_ids, i, all_papers, filtered_papers, papers, file, file0,
          csv_papers, csv_k, caller, log, arg, ret>>

-----------------------------------------------------------------------------
(* Bounds of the model. *)

\* words per affiliation string given to the classifier
MaxWords == 3
\* authors per article given to the author extractor
MaxAuthors == 2
\* affiliations per author
MaxAffils == 1
\* articles per response given to the detail client
MaxArticles == 3
\* articles per response of one batch in a pipeline run
MaxBatchArticles == 1
\* the largest search result of a pipeline run
MaxIds == 450

-----------------------------------------------------------------------------
(* Python values and string helpers. *)

\* the .text of an element without text
None == "<None>"

\* f"{x}" of a .text
Str(t) == IF t = None THEN "None" ELSE t

\* bool(t) of a .text
Truthy(t) == t # None /\ t # ""

Min(a, b) == IF a < b THEN a ELSE b

RECURSIVE SeqsUpTo(_, _)
SeqsUpTo(S, n) ==
    IF n = 0 THEN {<<>>}
    ELSE LET shorter == SeqsUpTo(S, n - 1)
         IN  shorter \cup {Append(s, x) : s \in {t \in shorter : Len(t) = n - 1}, x \in S}

\* k in s, for strings
Contains(s, k) ==
    \E p \in 1..(Len(s) - Len(k) + 1) : SubSeq(s, p, p + Len(k) - 1) = k

UpperLetters == "ABCDEFGHIJKLMNOPQRSTUVWXYZ"
LowerLetters == "abcdefghijklmnopqrstuvwxyz"

LowerChar(c) ==
    IF \E p \in 1..26 : SubSeq(UpperLetters, p, p) = c
    THEN LET p == CHOOSE q \in 1..26 : SubSeq(UpperLetters, q, q) = c
         IN  SubSeq(LowerLetters, p, p)
    ELSE c

\* str.lower()
RECURSIVE Lower(_)
Lower(s) ==
    IF Len(s) = 0 THEN ""
    ELSE LowerChar(SubSeq(s, 1, 1)) \o Lower(SubSeq(s, 2, Len(s)))

\* sep.join(parts), for a sequence of strings
RECURSIVE Join(_, _)
Join(parts, sep) ==
    IF Len(parts) = 0 THEN ""
    ELSE IF Len(parts) = 1 THEN parts[1]
    ELSE parts[1] \o sep \o Join(Tail(parts), sep)

\* str.zfill(2): zeros after a leading sign, up to width 2
zfill2(s) ==
    IF Len(s) >= 2 THEN s
    ELSE IF Len(s) = 0 THEN "00"
    ELSE IF s = "+" \/ s = "-" THEN s \o "0"
    ELSE "0" \o s

-----------------------------------------------------------------------------
(* The affiliation classifier. *)

COMPANY_KEYWORDS ==
    {"pfizer", "roche", "novartis", "merck", "gsk", "glaxosmithkline",
     "sanofi", "astrazeneca", "bristol-myers", "squibb", "abbvie",
     "amgen", "gilead", "biogen", "celgene", "regeneron", "vertex",
     "moderna", "biontech", "illumina", "thermo fisher", "danaher",
     "abbott", "medtronic", "johnson & johnson", "j&j", "eli lilly",
     "boehringer ingelheim", "takeda", "bayer", "pharmaceutical",
     "biotechnology", "biotech", "pharma", "inc.", "ltd.", "corp.",
     "corporation", "limited", "incorporated"}

academic_keywords ==
    {"university", "college", "institute", "school", "hospital",
     "medical center", "research center", "laboratory", "department"}

company_indicators == {"inc", "ltd", "corp", "llc", "pharmaceutical", "biotech"}

has_company_keyword(affiliation_lower) ==
    \E keyword \in COMPANY_KEYWORDS : Contains(affiliation_lower, keyword)

has_academic_keyword(affiliation_lower) ==
    \E keyword \in academic_keywords : Contains(affiliation_lower, keyword)

has_company_indicator(affiliation_lower) ==
    \E indicator \in company_indicators : Contains(affiliation_lower, indicator)

\* a classifier that forgets the academic tie-break
_is_company_affiliation_no_tiebreak(affiliation) ==
    LET affiliation_lower == Lower(affiliation)
    IN  IF has_company_keyword(affiliation_lower) THEN TRUE
        ELSE has_company_indicator(affiliation_lower)

_is_company_affiliation(affiliation) ==
    LET affiliation_lower == Lower(affiliation)
    IN  IF has_company_keyword(affiliation_lower) THEN TRUE
        ELSE has_company_indicator(affiliation_lower)
             /\ ~has_academic_keyword(affiliation_lower)

-----------------------------------------------------------------------------
(* The record extractor. *)

\* an element that find() does not find, and one found with the given .text
Absent == <<>>
Elem(text) == <<text>>

\* one date location: its Year, Month and Day children
DateElem(year, month, day) == <<[Year |-> year, Month |-> month, Day |-> day]>>

\* the body of the loop of _extract_publication_date for a location that is
\* present: "raise" (a .text of None reaches zfill or join), "value", or
\* "next" (no component: the loop goes on to the next location)
DateAtLocation(date_elem) ==
    LET year == date_elem.Year
        month == date_elem.Month
        day == date_elem.Day
        date_parts ==
            (IF year # Absent THEN <<year[1]>> ELSE <<>>)
            \o (IF month # Absent THEN <<zfill2(month[1])>> ELSE <<>>)
            \o (IF day # Absent THEN <<zfill2(day[1])>> ELSE <<>>)
    IN  IF month # Absent /\ month[1] = None THEN [kind |-> "raise", value |-> ""]
        ELSE IF day # Absent /\ day[1] = None THEN [kind |-> "raise", value |-> ""]
        ELSE IF date_parts = <<>> THEN [kind |-> "next", value |-> ""]
        ELSE IF year # Absent /\ year[1] = None THEN [kind |-> "raise", value |-> ""]
        ELSE [kind |-> "value", value |-> Join(date_parts, "-")]

\* a date extraction that stops at the first location present
RECURSIVE FirstPresentDateOf(_)
FirstPresentDateOf(locations) ==
    IF locations = <<>> THEN [kind |-> "value", value |-> "N/A"]
    ELSE IF Head(locations) = Absent THEN FirstPresentDateOf(Tail(locations))
    ELSE LET here == DateAtLocation(Head(locations)[1])
         IN  IF here.kind = "next" THEN [kind |-> "value", value |-> "N/A"] ELSE here

RECURSIVE DateOf(_)
DateOf(locations) ==
    IF locations = <<>> THEN [kind |-> "value", value |-> "N/A"]
    ELSE IF Head(locations) = Absent THEN DateOf(Tail(locations))
    ELSE LET here == DateAtLocation(Head(locations)[1])
         IN  IF here.kind = "next" THEN DateOf(Tail(locations)) ELSE here

date_elements(article) == <<article.PubDate, article.ArticleDate, article.DateCompleted>>

_extract_publication_date(article) == DateOf(date_elements(article))

\* the commercial affiliation strings of one author
CompanyAffiliationsOf(author) ==
    {author.Affiliations[k] : k \in
        {j \in 1..Len(author.Affiliations) :
            /\ Truthy(author.Affiliations[j])
            /\ _is_company_affiliation(Lower(author.Affiliations[j]))}}

\* whether the loop of _extract_author_info skips the author (continue)
HasDisplayName(author) == author.LastName # Absent

author_name(author) ==
    IF author.ForeName # Absent
    THEN Str(author.ForeName[1]) \o " " \o Str(author.LastName[1])
    ELSE author.LastName[1]

\* an author loop that examines the affiliations before the name
RECURSIVE AuthorInfoNameless(_)
AuthorInfoNameless(authors) ==
    IF authors = <<>> THEN [non_academic_authors |-> <<>>, company_affiliations |-> {}]
    ELSE LET author == Head(authors)
             rest == AuthorInfoNameless(Tail(authors))
             found == CompanyAffiliationsOf(author)
         IN  [non_academic_authors |->
                 (IF found # {} /\ HasDisplayName(author)
                  THEN <<author_name(author)>> ELSE <<>>)
                 \o rest.non_academic_authors,
              company_affiliations |-> found \cup rest.company_affiliations]

RECURSIVE AuthorInfo(_)
AuthorInfo(authors) ==
    IF authors = <<>> THEN [non_academic_authors |-> <<>>, company_affiliations |-> {}]
    ELSE LET author == Head(authors)
             rest == AuthorInfo(Tail(authors))
         IN  IF ~HasDisplayName(author) THEN rest
             ELSE LET found == CompanyAffiliationsOf(author)
                  IN  [non_academic_authors |->
                          (IF found # {} THEN <<author_name(author)>> ELSE <<>>)
                          \o rest.non_academic_authors,
                       company_affiliations |-> found \cup rest.company_affiliations]

_extract_author_info(article) ==
    IF article.AuthorList = Absent
    THEN [non_academic_authors |-> <<>>, company_affiliations |-> {}]
    ELSE AuthorInfo(article.AuthorList[1])

\* _parse_article: <<>> for None (the except branch), else <<PaperInfo>>
_parse_article(article) ==
    LET pub_date == _extract_publication_date(article)
        info == _extract_author_info(article)
    IN  IF article.PMID = Absent THEN <<>>
        ELSE IF pub_date.kind = "raise" THEN <<>>
        ELSE <<[pubmed_id |-> article.PMID[1],
                title |-> IF article.ArticleTitle # Absent
                          THEN article.ArticleTitle[1] ELSE "N/A",
                publication_date |-> pub_date.value,
                non_academic_authors |-> info.non_academic_authors,
                company_affiliations |-> info.company_affiliations]>>

-----------------------------------------------------------------------------
(* The detail client. *)

\* a loop over the articles that gives up at the first one that fails
RECURSIVE ParseUntilFailure(_)
ParseUntilFailure(articles) ==
    IF articles = <<>> THEN <<>>
    ELSE IF _parse_article(Head(articles)) = <<>> THEN <<>>
    ELSE _parse_article(Head(articles)) \o ParseUntilFailure(Tail(articles))

\* the loop of fetch_paper_details over root.findall('.//PubmedArticle')
RECURSIVE ParseArticles(_)
ParseArticles(articles) ==
    IF articles = <<>> THEN <<>>
    ELSE _parse_article(Head(articles)) \o ParseArticles(Tail(articles))

\* what the fetch endpoint does with one request
RequestException == [kind |-> "RequestException", articles |-> <<>>]
ParseError == [kind |-> "ParseError", articles |-> <<>>]
Response(articles) == [kind |-> "ok", articles |-> articles]

\* whether fetch_paper_details reaches session.get
IssuesRequest(ids) == ids # <<>>

fetch_paper_details(ids, outcome) ==
    IF ids = <<>> THEN <<>>
    ELSE IF outcome.kind = "ok" THEN ParseArticles(outcome.articles)
    ELSE <<>>

-----------------------------------------------------------------------------
(* The filter. *)

IsCompanyPaper(paper) ==
    paper.non_academic_authors # <<>> \/ paper.company_affiliations # {}

\* a filter that keeps every paper
KeepAll(paper_list) == paper_list

filter_papers_with_company_authors(paper_list) == SelectSeq(paper_list, IsCompanyPaper)

-----------------------------------------------------------------------------
(* The extractor functions on their own, one specification each. *)

\* the words the checked affiliation strings are made of
AffiliationWords ==
    {"Pfizer", "Princeton", "University", "Department", "Inc", "Inc.",
     "LLC", "Ltd", "Biotech", "Acme"}

\* the pipeline variables, unused while one function is verified alone
Idle ==
    /\ pubmed_ids = <<>>
    /\ i = 0
    /\ all_papers = <<>>
    /\ filtered_papers = <<>>
    /\ papers = <<>>
    /\ file = [exists |-> FALSE, header |-> FALSE, rows |-> <<>>]
    /\ file0 = [exists |-> FALSE, header |-> FALSE, rows |-> <<>>]
    /\ csv_papers = <<>>
    /\ csv_k = 0
    /\ caller = ""
    /\ log = <<>>

UnchangedRun ==
    UNCHANGED <<pubmed_ids, i, all_papers, filtered_papers, papers, file, file0,
                csv_papers, csv_k, caller, log>>

ClassifyInit ==
    /\ Idle
    /\ pc = "call"
    /\ arg \in {Join(w, " ") : w \in SeqsUpTo(AffiliationWords, MaxWords)}
    /\ ret = FALSE

Classify ==
    /\ pc = "call"
    /\ ret' = _is_company_affiliation(arg)
    /\ pc' = "return"
    /\ UNCHANGED arg
    /\ UnchangedRun

ClassifyNext == Classify

ClassifySpec == ClassifyInit /\ [][ClassifyNext]_vars

\* an article with an identifier and a title and nothing else
BareArticle ==
    [PMID |-> Elem("101"), ArticleTitle |-> Elem("A trial"), PubDate |-> Absent,
     ArticleDate |-> Absent, DateCompleted |-> Absent, AuthorList |-> Absent]

YearElems == {Absent, Elem("2023"), Elem("1999"), Elem(None)}
MonthElems == {Absent, Elem("7"), Elem("Jul"), Elem(None)}
DayElems == {Absent, Elem("5"), Elem(None)}

DateLocations ==
    {Absent} \cup {DateElem(y, m, d) : y \in YearElems, m \in MonthElems, d \in DayElems}

DateInit ==
    /\ Idle
    /\ pc = "call"
    /\ \E pub \in DateLocations, art \in DateLocations, done \in DateLocations :
          arg = [BareArticle EXCEPT !.PubDate = pub, !.ArticleDate = art,
                                    !.DateCompleted = done]
    /\ ret = [kind |-> "value", value |-> ""]

ExtractDate ==
    /\ pc = "call"
    /\ ret' = _extract_publication_date(arg)
    /\ pc' = "return"
    /\ UNCHANGED arg
    /\ UnchangedRun

DateNext == ExtractDate

DateSpec == DateInit /\ [][DateNext]_vars

\* the affiliation texts of the checked authors
AffiliationTexts == {None, "Pfizer Inc., New York", "Harvard University"}

Authors ==
    [LastName : {Absent, Elem("Lee")},
     ForeName : {Absent, Elem("Ann")},
     Affiliations : SeqsUpTo(AffiliationTexts, MaxAffils)]

AuthorInit ==
    /\ Idle
    /\ pc = "call"
    /\ \E author_list \in {Absent} \cup {Elem(a) : a \in SeqsUpTo(Authors, MaxAuthors)} :
          arg = [BareArticle EXCEPT !.AuthorList = author_list]
    /\ ret = <<>>

\* _parse_article of an article whose identifier and dates are in order
ExtractAuthors ==
    /\ pc = "call"
    /\ ret' = _parse_article(arg)
    /\ pc' = "return"
    /\ UNCHANGED arg
    /\ UnchangedRun

AuthorNext == ExtractAuthors

AuthorSpec == AuthorInit /\ [][AuthorNext]_vars

\* authors of the checked articles
CompanyAuthor ==
    [LastName |-> Elem("Lee"), ForeName |-> Elem("Ann"),
     Affiliations |-> <<"Novartis Corp">>]
AcademicAuthor ==
    [LastName |-> Elem("Roe"), ForeName |-> Absent,
     Affiliations |-> <<"Stanford University">>]

CompanyArticle ==
    [BareArticle EXCEPT !.PMID = Elem("11"), !.AuthorList = Elem(<<CompanyAuthor, AcademicAuthor>>),
                        !.PubDate = DateElem(Elem("2023"), Elem("7"), Absent)]
AcademicArticle ==
    [BareArticle EXCEPT !.PMID = Elem("12"), !.AuthorList = Elem(<<AcademicAuthor>>)]
\* no PMID element: article.find('.//PMID').text raises
NoIdArticle ==
    [BareArticle EXCEPT !.PMID = Absent, !.AuthorList = Elem(<<CompanyAuthor>>)]
\* <Month/>: month.text.zfill raises
BadDateArticle ==
    [BareArticle EXCEPT !.PMID = Elem("14"), !.AuthorList = Elem(<<CompanyAuthor>>),
                        !.PubDate = DateElem(Elem("2023"), Elem(None), Absent)]

DetailArticles == {CompanyArticle, AcademicArticle, NoIdArticle, BadDateArticle, BareArticle}

DetailInit ==
    /\ Idle
    /\ pc = "call"
    /\ arg \in [ids : {<<>>, <<"11", "12">>},
                outcome : {RequestException, ParseError}
                          \cup {Response(a) : a \in SeqsUpTo(DetailArticles, MaxArticles)}]
    /\ ret = <<>>

FetchDetails ==
    /\ pc = "call"
    /\ ret' = fetch_paper_details(arg.ids, arg.outcome)
    /\ pc' = "return"
    /\ UNCHANGED arg
    /\ UnchangedRun

DetailNext == FetchDetails

DetailSpec == DetailInit /\ [][DetailNext]_vars

-----------------------------------------------------------------------------
(* The pipeline: main calling fetch_and_filter_papers. *)

batch_size == 200

\* the lengths of the search results of the checked runs
IdCounts == {0, 1, batch_size - 1, batch_size, batch_size + 1, 2 * batch_size, MaxIds}

\* the articles of the checked runs' responses
PipelineArticles == {CompanyArticle, AcademicArticle, NoIdArticle}

NoFile == [exists |-> FALSE, header |-> FALSE, rows |-> <<>>]

\* writer.writerow's dict for one paper; list(set) leaves the order of the
\* joined affiliations open, so the column keeps the set
Row(paper) ==
    [PubmedID |-> paper.pubmed_id,
     Title |-> paper.title,
     PublicationDate |-> paper.publication_date,
     NonAcademicAuthors |-> Join(paper.non_academic_authors, "; "),
     CompanyAffiliations |-> paper.company_affiliations]

\* a results file an earlier run left
OldFile ==
    [exists |-> TRUE, header |-> TRUE,
     rows |-> <<[PubmedID |-> "7", Title |-> "An older paper",
                 PublicationDate |-> "2020", NonAcademicAuthors |-> "Bo Kim",
                 CompanyAffiliations |-> {"Roche Ltd."}]>>]

Call(op, ids, got, outcome) ==
    [op |-> op, ids |-> ids, papers |-> got, outcome |-> outcome]

Init ==
    /\ pc = "search"
    /\ pubmed_ids = <<>>
    /\ i = 0
    /\ all_papers = <<>>
    /\ filtered_papers = <<>>
    /\ papers = <<>>
    /\ file0 \in {NoFile, OldFile}
    /\ file = file0
    /\ csv_papers = <<>>
    /\ csv_k = 0
    /\ caller = ""
    /\ log = <<>>
    /\ arg = <<>>
    /\ ret = <<>>

\* a run that fetches before it looks at the search result
AlwaysFetch(ids) == "fetch"

\* "if not pubmed_ids: return []", else on to the loop
AfterSearch(ids) == IF ids = <<>> THEN "main" ELSE "fetch"

\* what search_papers returns for an IdList of n Id elements
IdList(n) == [p \in 1..n |-> p]

SearchFrame ==
    <<i, all_papers, filtered_papers, papers, file, file0, csv_papers, csv_k,
      caller, arg, ret>>

\* pubmed_ids = self.search_papers(query, max_results) and the test after it:
\* the response holds an IdList
SearchOk ==
    /\ pc = "search"
    /\ \E n \in IdCounts : pubmed_ids' = IdList(n)
    /\ log' = Append(log, Call("search", <<>>, <<>>, "ok"))
    /\ pc' = AfterSearch(pubmed_ids')
    /\ UNCHANGED SearchFrame

\* the response holds no IdList: return []
SearchNoIdList ==
    /\ pc = "search"
    /\ pubmed_ids' = <<>>
    /\ log' = Append(log, Call("search", <<>>, <<>>, "no IdList"))
    /\ pc' = AfterSearch(pubmed_ids')
    /\ UNCHANGED SearchFrame

\* except requests.RequestException: return []
SearchRequestException ==
    /\ pc = "search"
    /\ pubmed_ids' = <<>>
    /\ log' = Append(log, Call("search", <<>>, <<>>, "RequestException"))
    /\ pc' = AfterSearch(pubmed_ids')
    /\ UNCHANGED SearchFrame

\* except ET.ParseError: return []
SearchParseError ==
    /\ pc = "search"
    /\ pubmed_ids' = <<>>
    /\ log' = Append(log, Call("search", <<>>, <<>>, "ParseError"))
    /\ pc' = AfterSearch(pubmed_ids')
    /\ UNCHANGED SearchFrame

\* a slice that runs one identifier too far
BatchIdsOverlapping(ids, offset) ==
    SubSeq(ids, offset + 1, Min(offset + batch_size + 1, Len(ids)))

\* pubmed_ids[i:i + batch_size]
BatchIds(ids, offset) == SubSeq(ids, offset + 1, Min(offset + batch_size, Len(ids)))

\* a run that a failed batch ends
AbortOnFailure(outcome) == IF outcome.kind = "ok" THEN "sleep" ELSE "failed"

\* fetch_paper_details returns on every outcome, so the loop goes on
AfterFetch(outcome) == "sleep"

\* papers = self.fetch_paper_details(batch_ids)
FetchedPapers(outcome) == fetch_paper_details(BatchIds(pubmed_ids, i), outcome)

\* the log after the call: session.get is reached unless the batch is empty
LogAfterFetch(outcome) ==
    IF IssuesRequest(BatchIds(pubmed_ids, i))
    THEN Append(log, Call("fetch", BatchIds(pubmed_ids, i), FetchedPapers(outcome),
                          outcome.kind))
    ELSE log

FetchFrame ==
    <<pubmed_ids, i, filtered_papers, papers, file, file0, csv_papers, csv_k,
      caller, arg, ret>>

\* one turn of the loop, the fetch endpoint answering with a document:
\* papers = self.fetch_paper_details(batch_ids); all_papers.extend(papers)
FetchOk ==
    /\ pc = "fetch"
    /\ \E a \in SeqsUpTo(PipelineArticles, MaxBatchArticles) :
          /\ all_papers' = all_papers \o FetchedPapers(Response(a))
          /\ log' = LogAfterFetch(Response(a))
          /\ pc' = AfterFetch(Response(a))
    /\ UNCHANGED FetchFrame

\* one turn of the loop, session.get or raise_for_status raising
FetchRequestException ==
    /\ pc = "fetch"
    /\ all_papers' = all_papers \o FetchedPapers(RequestException)
    /\ log' = LogAfterFetch(RequestException)
    /\ pc' = AfterFetch(RequestException)
    /\ UNCHANGED FetchFrame

\* one turn of the loop, ET.fromstring raising
FetchParseError ==
    /\ pc = "fetch"
    /\ all_papers' = all_papers \o FetchedPapers(ParseError)
    /\ log' = LogAfterFetch(ParseError)
    /\ pc' = AfterFetch(ParseError)
    /\ UNCHANGED FetchFrame

\* time.sleep(0.34), and the loop's step
Sleep ==
    /\ pc = "sleep"
    /\ log' = Append(log, Call("sleep", <<>>, <<>>, "ok"))
    /\ i' = i + batch_size
    /\ pc' = IF i + batch_size < Len(pubmed_ids) THEN "fetch" ELSE "filter"
    /\ UNCHANGED <<pubmed_ids, all_papers, filtered_papers, papers, file, file0,
                   csv_papers, csv_k, caller, arg, ret>>

\* a run that exports whatever the filter gives
ExportAlways(paper_list) == TRUE

\* "if filtered_papers:"
ExportNeeded(paper_list) == paper_list # <<>>

\* filtered_papers = self.filter_papers_with_company_authors(all_papers), and
\* the call of save_to_csv when the list is not empty
Filter ==
    /\ pc = "filter"
    /\ LET kept == filter_papers_with_company_authors(all_papers)
       IN  /\ filtered_papers' = kept
           /\ IF ExportNeeded(kept)
              THEN /\ csv_papers' = kept
                   /\ caller' = "ffp"
                   /\ log' = Append(log, Call("export", <<>>, kept, "ffp"))
                   /\ pc' = "csv_open"
              ELSE /\ UNCHANGED <<csv_papers, caller, log>>
                   /\ pc' = "return"
    /\ UNCHANGED <<pubmed_ids, i, all_papers, papers, file, file0, csv_k, arg, ret>>

\* open(filename, 'w'): the destination is created or truncated
CsvOpen ==
    /\ pc = "csv_open"
    /\ file' = [exists |-> TRUE, header |-> FALSE, rows |-> <<>>]
    /\ csv_k' = 0
    /\ pc' = "csv_header"
    /\ UNCHANGED <<pubmed_ids, i, all_papers, filtered_papers, papers, file0,
                   csv_papers, caller, log, arg, ret>>

\* open raises OSError: it reaches main's "except Exception"
CsvOpenFails ==
    /\ pc = "csv_open"
    /\ pc' = "failed"
    /\ UNCHANGED <<pubmed_ids, i, all_papers, filtered_papers, papers, file, file0,
                   csv_papers, csv_k, caller, log, arg, ret>>

\* writer.writeheader()
CsvWriteHeader ==
    /\ pc = "csv_header"
    /\ file' = [file EXCEPT !.header = TRUE]
    /\ pc' = "csv_rows"
    /\ UNCHANGED <<pubmed_ids, i, all_papers, filtered_papers, papers, file0,
                   csv_papers, csv_k, caller, log, arg, ret>>

\* writer.writerow(...) for the next paper
CsvWriteRow ==
    /\ pc = "csv_rows"
    /\ csv_k < Len(csv_papers)
    /\ file' = [file EXCEPT !.rows = Append(@, Row(csv_papers[csv_k + 1]))]
    /\ csv_k' = csv_k + 1
    /\ UNCHANGED <<pc, pubmed_ids, i, all_papers, filtered_papers, papers, file0,
                   csv_papers, caller, log, arg, ret>>

\* the end of the with block, and the return to the caller
CsvClose ==
    /\ pc = "csv_rows"
    /\ csv_k = Len(csv_papers)
    /\ pc' = IF caller = "ffp" THEN "return" ELSE "done"
    /\ UNCHANGED <<pubmed_ids, i, all_papers, filtered_papers, papers, file, file0,
                   csv_papers, csv_k, caller, log, arg, ret>>

\* return filtered_papers
Return ==
    /\ pc = "return"
    /\ papers' = filtered_papers
    /\ pc' = "main"
    /\ UNCHANGED <<pubmed_ids, i, all_papers, filtered_papers, file, file0,
                   csv_papers, csv_k, caller, log, arg, ret>>

\* main: "if papers:"
MainReport ==
    /\ pc = "main"
    /\ papers # <<>>
    /\ pc' = "done"
    /\ UNCHANGED <<pubmed_ids, i, all_papers, filtered_papers, papers, file, file0,
                   csv_papers, csv_k, caller, log, arg, ret>>

\* main: no papers and no file at the destination: save_to_csv([], args.file)
MainPlaceholder ==
    /\ pc = "main"
    /\ papers = <<>>
    /\ ~file.exists
    /\ csv_papers' = <<>>
    /\ caller' = "main"
    /\ log' = Append(log, Call("export", <<>>, <<>>, "main"))
    /\ pc' = "csv_open"
    /\ UNCHANGED <<pubmed_ids, i, all_papers, filtered_papers, papers, file, file0,
                   csv_k, arg, ret>>

\* main: no papers and a file at the destination
MainNothing ==
    /\ pc = "main"
    /\ papers = <<>>
    /\ file.exists
    /\ pc' = "done"
    /\ UNCHANGED <<pubmed_ids, i, all_papers, filtered_papers, papers, file, file0,
                   csv_papers, csv_k, caller, log, arg, ret>>

\* KeyboardInterrupt: it unwinds to main's handler from wherever the run is;
\* an open file is closed with what was written to it
Interrupt ==
    /\ pc \notin {"done", "cancelled", "failed"}
    /\ pc' = "cancelled"
    /\ UNCHANGED <<pubmed_ids, i, all_papers, filtered_papers, papers, file, file0,
                   csv_papers, csv_k, caller, log, arg, ret>>

Next ==
    \/ SearchOk
    \/ SearchNoIdList
    \/ SearchRequestException
    \/ SearchParseError
    \/ FetchOk
    \/ FetchRequestException
    \/ FetchParseError
    \/ Sleep
    \/ Filter
    \/ CsvOpen
    \/ CsvOpenFails
    \/ CsvWriteHeader
    \/ CsvWriteRow
    \/ CsvClose
    \/ Return
    \/ MainReport
    \/ MainPlaceholder
    \/ MainNothing
    \/ Interrupt

Spec == Init /\ [][Next]_vars

-----------------------------------------------------------------------------
(* Properties of the pipeline, under Spec. *)

IsSearch(c) == c.op = "search"
IsFetch(c) == c.op = "fetch"
IsSleep(c) == c.op = "sleep"
IsFfpExport(c) == c.op = "export" /\ c.outcome = "ffp"

Searches == SelectSeq(log, IsSearch)
Fetches == SelectSeq(log, IsFetch)
FfpExports == SelectSeq(log, IsFfpExport)

CeilDiv(n, d) == (n + d - 1) \div d

\* every turn of the loop was taken
AllBatchesDone == pubmed_ids # <<>> /\ i >= Len(pubmed_ids)

\* the run is past the filter, not cancelled and not failed
PastFilter ==
    \/ pc \in {"csv_open", "csv_header", "csv_rows"} /\ caller = "ffp"
    \/ pc = "return"
    \/ pc \in {"main", "done"} /\ pubmed_ids # <<>>

\* the papers of seq that have an author list or an affiliation set that is
\* not empty, in the order of seq
KeptIndices(seq) ==
    {k \in 1..Len(seq) :
        seq[k].non_academic_authors # <<>> \/ seq[k].company_affiliations # {}}

IsKeptPart(part, seq) ==
    /\ Len(part) = Cardinality(KeptIndices(seq))
    /\ \A k \in KeptIndices(seq) :
          part[Cardinality({j \in KeptIndices(seq) : j <= k})] = seq[k]

RECURSIVE Flatten(_)
Flatten(calls) ==
    IF calls = <<>> THEN <<>> ELSE Head(calls).papers \o Flatten(Tail(calls))

\* the file save_to_csv leaves when it runs to its end
CompleteExport(paper_list) ==
    [exists |-> TRUE, header |-> TRUE,
     rows |-> [k \in 1..Len(paper_list) |-> Row(paper_list[k])]]

(* C1: the detail-fetch calls made so far are the first batches of the     *)
(* search result: the k-th call gets exactly the identifiers at positions  *)
(* 200(k-1) .. min(200k, N)-1, there are ceil(N/200) calls once the loop   *)
(* has ended, and a pause lies between any two calls.                      *)
C1_Batching ==
    LET N == Len(pubmed_ids)
    IN  /\ Len(Fetches) <= CeilDiv(N, 200)
        /\ \A k \in 1..Len(Fetches) :
              /\ Len(Fetches[k].ids) = Min(200 * k, N) - 200 * (k - 1)
              /\ \A p \in 1..Len(Fetches[k].ids) :
                    Fetches[k].ids[p] = pubmed_ids[200 * (k - 1) + p]
              /\ Len(Fetches[k].ids) <= 200
              /\ k < Len(Fetches) => Len(Fetches[k].ids) = 200
        /\ AllBatchesDone => Len(Fetches) = CeilDiv(N, 200)
        /\ \A a, b \in 1..Len(log) :
              (a < b /\ IsFetch(log[a]) /\ IsFetch(log[b]))
                  => \E c \in (a + 1)..(b - 1) : IsSleep(log[c])

C1_Witness ==
    /\ pc = "filter"
    /\ Len(pubmed_ids) = MaxIds
    /\ Len(Fetches) = 3
    /\ Len(Fetches[3].ids) = MaxIds - 400

(* C2: an empty search result, whatever its cause, ends                    *)
(* fetch_and_filter_papers at once with an empty list: no detail fetch, no *)
(* pause, no export by it; and the search is called once.                  *)
C2_EmptySearch ==
    /\ Len(Searches) <= 1
    /\ pc \notin {"search", "cancelled"} => Len(Searches) = 1
    /\ (log # <<>> /\ log[1].outcome # "ok") => pubmed_ids = <<>>
    /\ (log # <<>> /\ pubmed_ids = <<>>) =>
          /\ Fetches = <<>>
          /\ \A c \in 1..Len(log) : ~IsSleep(log[c])
          /\ FfpExports = <<>>
          /\ papers = <<>>
          /\ all_papers = <<>>
          /\ \/ pc \in {"main", "done", "cancelled"}
             \/ pc \in {"csv_open", "csv_header", "csv_rows", "failed"} /\ caller = "main"

C2_Witness ==
    /\ pc = "main"
    /\ Len(log) = 1
    /\ log[1].outcome = "RequestException"
    /\ papers = <<>>

(* C3: the list the filter gives, the list handed to the exporter and the  *)
(* list returned are the accumulated records with a non-empty author list  *)
(* or a non-empty affiliation set, in accumulation order.                  *)
C3_FilteredOutput ==
    /\ \A k \in 1..Len(filtered_papers) :
          \/ filtered_papers[k].non_academic_authors # <<>>
          \/ filtered_papers[k].company_affiliations # {}
    /\ PastFilter => IsKeptPart(filtered_papers, all_papers)
    /\ \A k \in 1..Len(FfpExports) : FfpExports[k].papers = filtered_papers
    /\ (pc \in {"csv_open", "csv_header", "csv_rows"} /\ caller = "ffp")
          => csv_papers = filtered_papers
    /\ (pc \in {"main", "done"} /\ pubmed_ids # <<>>) => papers = filtered_papers

C3_Witness ==
    /\ pc = "main"
    /\ papers # <<>>
    /\ Len(papers) < Len(all_papers)
    /\ FfpExports # <<>>

(* C4: a failed detail fetch adds no record and ends nothing: the          *)
(* accumulator holds the records of all the other calls, each batch is     *)
(* requested once, the later batches are fetched, and all of it reaches    *)
(* the filter.                                                             *)
C4_FailedBatch ==
    /\ \A k \in 1..Len(Fetches) : Fetches[k].outcome # "ok" => Fetches[k].papers = <<>>
    /\ all_papers = Flatten(Fetches)
    /\ \A k \in 1..Len(Fetches) : Fetches[k].ids[1] = pubmed_ids[200 * (k - 1) + 1]
    /\ AllBatchesDone => Len(Fetches) = CeilDiv(Len(pubmed_ids), 200)
    /\ pc = "failed" => \E c \in 1..Len(log) : log[c].op = "export"
    /\ PastFilter => filtered_papers = filter_papers_with_company_authors(Flatten(Fetches))

C4_Witness ==
    /\ pc = "return"
    /\ Len(Fetches) = 3
    /\ Fetches[1].papers # <<>>
    /\ Fetches[2].outcome = "RequestException"
    /\ Fetches[3].papers # <<>>
    /\ Len(filtered_papers) = Len(Fetches[1].papers) + Len(Fetches[3].papers)

(* C6: fetch_and_filter_papers calls the exporter at most once, only after *)
(* every batch was fetched and filtered, exactly when the filtered list is *)
(* not empty and with that list, which it then returns; when the filtered  *)
(* list is empty it writes nothing and a file already at the destination   *)
(* stays as it was.                                                        *)
C6_Export ==
    /\ Len(FfpExports) <= 1
    /\ FfpExports # <<>> =>
          /\ AllBatchesDone
          /\ filtered_papers # <<>>
          /\ FfpExports[1].papers = filtered_papers
          /\ IsKeptPart(filtered_papers, all_papers)
    /\ PastFilter => (FfpExports # <<>> <=> filtered_papers # <<>>)
    /\ (pc = "main" /\ FfpExports # <<>>) =>
          /\ papers = FfpExports[1].papers
          /\ file = CompleteExport(papers)
    /\ (FfpExports = <<>> /\ caller # "main") => file = file0
    /\ (FfpExports = <<>> /\ file0.exists) => file = file0

C6_Witness ==
    /\ pc = "main"
    /\ FfpExports # <<>>
    /\ file0 = OldFile
    /\ file = CompleteExport(papers)
    /\ Len(papers) = 2

(* C7: after an interruption of fetch_and_filter_papers the output          *)
(* destination is as the run found it or holds the complete export, header *)
(* and one row per filtered record.                                        *)
C7_NoPartialFile ==
    (pc = "cancelled" /\ caller # "main")
        => (file = file0 \/ file = CompleteExport(filtered_papers))

-----------------------------------------------------------------------------
(* Properties of the detail client, under DetailSpec. *)

ParsedIndices(articles) == {k \in 1..Len(articles) : _parse_article(articles[k]) # <<>>}

(* C5: for a response that parses, fetch_paper_details returns the records *)
(* of exactly the articles whose extraction succeeds, in document order;   *)
(* an article without identifier or with a faulty date is dropped alone.   *)
C5_ArticleDropped ==
    (pc = "return" /\ arg.ids # <<>> /\ arg.outcome.kind = "ok") =>
        LET articles == arg.outcome.articles
            parsed == ParsedIndices(articles)
        IN  /\ Len(ret) = Cardinality(parsed)
            /\ \A k \in parsed :
                  ret[Cardinality({j \in parsed : j <= k})] = _parse_article(articles[k])[1]
            /\ \A k \in 1..Len(articles) : articles[k].PMID = Absent => k \notin parsed
            /\ \A k \in 1..Len(articles) :
                  (articles[k] \in {CompanyArticle, AcademicArticle, BareArticle})
                      => k \in parsed

C5_Witness ==
    /\ pc = "return"
    /\ arg.ids # <<>>
    /\ arg.outcome = Response(<<CompanyArticle, NoIdArticle, AcademicArticle>>)
    /\ Len(ret) = 2
    /\ ret[1].pubmed_id = "11"
    /\ ret[2].pubmed_id = "12"

-----------------------------------------------------------------------------
(* Properties of the classifier, under ClassifySpec. *)

(* C8 as stated: an affiliation with an academic keyword and a short       *)
(* commercial indicator is classified non-commercial.                      *)
C8_AcademicWins ==
    (/\ pc = "return"
     /\ has_academic_keyword(Lower(arg))
     /\ has_company_indicator(Lower(arg))) => ret = FALSE

(* C8 as amended: an affiliation with an academic keyword and a short      *)
(* commercial indicator, and with no entry of COMPANY_KEYWORDS in it, is   *)
(* classified non-commercial.                                              *)
C8_AcademicWinsWithoutKeyword ==
    (/\ pc = "return"
     /\ has_academic_keyword(Lower(arg))
     /\ has_company_indicator(Lower(arg))
     /\ \A keyword \in COMPANY_KEYWORDS : ~Contains(Lower(arg), keyword)) => ret = FALSE

C8_Witness ==
    /\ pc = "return"
    /\ arg = "University Acme LLC"
    /\ ret = FALSE

-----------------------------------------------------------------------------
(* Properties of the date extraction, under DateSpec. *)

HasComponent(location) ==
    /\ location # Absent
    /\ \/ location[1].Year # Absent
       \/ location[1].Month # Absent
       \/ location[1].Day # Absent

\* Year, zero-padded Month and zero-padded Day of a location, those present
ComponentsOf(location) ==
    (IF location[1].Year # Absent THEN <<location[1].Year[1]>> ELSE <<>>)
    \o (IF location[1].Month # Absent THEN <<zfill2(location[1].Month[1])>> ELSE <<>>)
    \o (IF location[1].Day # Absent THEN <<zfill2(location[1].Day[1])>> ELSE <<>>)

HasTextlessComponent(location) ==
    \/ location[1].Year = Elem(None)
    \/ location[1].Month = Elem(None)
    \/ location[1].Day = Elem(None)

(* C9 as stated: the result is built from the highest-priority location    *)
(* that is present, and from no other.                                     *)
C9_FirstPresent ==
    pc = "return" =>
        LET locations == date_elements(arg)
            present == {k \in 1..3 : locations[k] # Absent}
        IN  IF present = {} THEN ret.value = "N/A"
            ELSE LET first == CHOOSE k \in present : \A j \in present : k <= j
                 IN  \/ ret.kind = "raise"
                     \/ /\ HasComponent(locations[first])
                        /\ ret.value = Join(ComponentsOf(locations[first]), "-")
                     \/ /\ ~HasComponent(locations[first])
                        /\ ret.value = "N/A"

(* C9 as amended: the result is built from the highest-priority location   *)
(* that is present and has a Year, a Month or a Day, and from no other; it *)
(* is N/A when no location has one; the extraction fails when a component  *)
(* of that location has no text.                                           *)
C9_FirstWithComponent ==
    pc = "return" =>
        LET locations == date_elements(arg)
            usable == {k \in 1..3 : HasComponent(locations[k])}
        IN  IF usable = {} THEN ret = [kind |-> "value", value |-> "N/A"]
            ELSE LET first == CHOOSE k \in usable : \A j \in usable : k <= j
                 IN  IF HasTextlessComponent(locations[first])
                     THEN ret.kind = "raise"
                     ELSE ret = [kind |-> "value",
                                 value |-> Join(ComponentsOf(locations[first]), "-")]

C9_Witness ==
    /\ pc = "return"
    /\ arg.PubDate = DateElem(Absent, Absent, Absent)
    /\ arg.ArticleDate = DateElem(Elem("2023"), Elem("7"), Absent)
    /\ arg.DateCompleted = DateElem(Elem("1999"), Absent, Elem("5"))
    /\ ret = [kind |-> "value", value |-> "2023-07"]

-----------------------------------------------------------------------------
(* Properties of the author extraction, under AuthorSpec. *)

(* C10: a record the extractor produces has an empty nonAcademicAuthors    *)
(* exactly when it has an empty companyAffiliations, so the filter keeps   *)
(* exactly the records with a non-academic author.                         *)
C10_AuthorsIffAffiliations ==
    (pc = "return" /\ ret # <<>>) =>
        /\ ret[1].non_academic_authors = <<>> <=> ret[1].company_affiliations = {}
        /\ filter_papers_with_company_authors(ret) = ret
              <=> ret[1].non_academic_authors # <<>>

C10_Witness ==
    /\ pc = "return"
    /\ ret # <<>>
    /\ arg.AuthorList # Absent
    /\ \E k \in 1..Len(arg.AuthorList[1]) :
          /\ arg.AuthorList[1][k].LastName = Absent
          /\ arg.AuthorList[1][k].Affiliations = <<"Pfizer Inc., New York">>
    /\ \E k \in 1..Len(arg.AuthorList[1]) :
          /\ arg.AuthorList[1][k].LastName # Absent
          /\ arg.AuthorList[1][k].Affiliations = <<"Pfizer Inc., New York">>
    /\ ret[1].non_academic_authors # <<>>
    /\ ret[1].company_affiliations = {"Pfizer Inc., New York"}

=============================================================================
